---- MODULE Spec2Model ----
(***************************************************************************)
(* Bio-link backend (src/server.py, src/api/index.py): one profile         *)
(* collection, one link collection, a startup seeder and six request       *)
(* handlers.  Every handler is a coroutine; its suspension points are its  *)
(* store operations, so a handler is modelled as one step per store        *)
(* operation, each step holding the synchronous code around that           *)
(* operation.  The two source files hold the same handlers (index.py adds  *)
(* the lazy get_db and the serverless adapter); line numbers below refer   *)
(* to src/server.py.                                                       *)
(***************************************************************************)
EXTENDS Integers, Sequences, FiniteSets, TLC

VARIABLES
    bio_profiles,   \* db.bio_profiles: documents in natural (insertion) order
    social_links,   \* db.social_links: documents in natural (insertion) order
    next_oid,       \* the next ObjectId the store driver generates
    clock,          \* the last value datetime.utcnow() returned
    budget,         \* calls that may still be started (bounds the run)
    pc,             \* per task: the store operation it is suspended before
    op,             \* per task: the handler it runs or ran last
    arg,            \* per task: the handler's parameters
    local,          \* per task: the ObjectId held in the handler's locals
    ret,            \* per task: what the last finished handler returned or raised
    pre             \* per task: the two collections as they were at the call

vars == <<bio_profiles, social_links, next_oid, clock, budget, pc, op, arg, local, ret, pre>>

-----------------------------------------------------------------------------
(* Bounds of the model. *)

MaxCalls == 2
MaxClock == 1
MaxOidIn == 2

(* Program constants. *)

ListLimit == 100
OidStrLen == 24

Tasks == {1, 2}

-----------------------------------------------------------------------------
(* bson.ObjectId and its string form. *)

HexDigits == <<"0", "1", "2", "3", "4", "5", "6", "7", "8", "9", "a", "b", "c", "d", "e", "f">>

UpperHexDigits == <<"0", "1", "2", "3", "4", "5", "6", "7", "8", "9", "A", "B", "C", "D", "E", "F">>

HexValue(c) ==
    IF \E i \in 1..16 : HexDigits[i] = c
    THEN (CHOOSE i \in 1..16 : HexDigits[i] = c) - 1
    ELSE (CHOOSE i \in 1..16 : UpperHexDigits[i] = c) - 1

IsHexChar(c) == \E i \in 1..16 : HexDigits[i] = c \/ UpperHexDigits[i] = c

RECURSIVE Pow16(_)
Pow16(k) == IF k = 0 THEN 1 ELSE 16 * Pow16(k - 1)

\* str(ObjectId): 24 lowercase hex digits, most significant first.  Only the
\* low eight digits are computed; the model's ids stay far below 16^8.
ObjectIdStr(n) ==
    [i \in 1..OidStrLen |->
        IF OidStrLen - i >= 8 THEN "0"
        ELSE HexDigits[((n \div Pow16(OidStrLen - i)) % 16) + 1]]

\* ObjectId(link_id) raises unless link_id is 24 hex digits.
ObjectIdValid(s) == Len(s) = OidStrLen /\ \A i \in 1..Len(s) : IsHexChar(s[i])

RECURSIVE HexNumber(_)
HexNumber(s) ==
    IF s = <<>> THEN 0
    ELSE 16 * HexNumber(SubSeq(s, 1, Len(s) - 1)) + HexValue(s[Len(s)])

ObjectId(s) == HexNumber(s)

\* convert_object_id: None stays None; a document's _id becomes the string id.
\* An optional document is a sequence of at most one document.
convert_object_id(doc) ==
    IF doc = <<>> THEN <<>>
    ELSE << [id |-> ObjectIdStr(doc[1]._id)]
            @@ [k \in DOMAIN doc[1] \ {"_id"} |-> doc[1][k]] >>

-----------------------------------------------------------------------------
(* Store primitives (motor collections), on a sequence of documents. *)

\* A find_one that finds nothing.
find_one_none(coll) == <<>>

\* find_one() with no filter: the first document in natural order, or None.
find_one(coll) == IF coll = <<>> THEN <<>> ELSE <<coll[1]>>

\* find_one({"_id": oid}): the first document with that _id, or None.
find_one_by_id(coll, oid) ==
    LET hits == SelectSeq(coll, LAMBDA d : d._id = oid)
    IN  IF hits = <<>> THEN <<>> ELSE <<hits[1]>>

\* A count that does not see the documents.
count_documents_zero(coll) == 0

count_documents(coll) == Len(coll)

insert_one(coll, doc) == Append(coll, doc)

insert_many(coll, docs) == coll \o docs

\* An update_one whose write is lost.
update_one_lost(coll, oid, fields) == coll

\* update_one({"_id": oid}, {"$set": fields}): the matching document gets the
\* given fields, every other field and document stays.
update_one(coll, oid, fields) ==
    [i \in 1..Len(coll) |->
        IF coll[i]._id = oid
        THEN [k \in DOMAIN coll[i] |->
                 IF k \in DOMAIN fields THEN fields[k] ELSE coll[i][k]]
        ELSE coll[i]]

\* A delete_one that removes nothing.
delete_one_nothing(coll, oid) == coll

\* delete_one({"_id": oid}): removes the first matching document.
delete_one(coll, oid) == SelectSeq(coll, LAMBDA d : d._id # oid)

deleted_count(coll, oid) == IF find_one_by_id(coll, oid) = <<>> THEN 0 ELSE 1

-----------------------------------------------------------------------------
(* What a handler returns or raises. *)

Returned(body) == [status |-> 200, detail |-> "", body |-> body]

HTTPException(status_code, detail) == [status |-> status_code, detail |-> detail, body |-> <<>>]

NoArg == [link_id |-> <<>>, data |-> <<>>]

Snapshot == [profiles |-> bio_profiles, links |-> social_links]

\* A task starts a handler: the call is counted and the collections recorded.
Call(t, name, a) ==
    /\ pc[t] = "idle"
    /\ budget > 0
    /\ budget' = budget - 1
    /\ op' = [op EXCEPT ![t] = name]
    /\ arg' = [arg EXCEPT ![t] = a]
    /\ pre' = [pre EXCEPT ![t] = Snapshot]

Finish(t, r) ==
    /\ pc' = [pc EXCEPT ![t] = "idle"]
    /\ ret' = [ret EXCEPT ![t] = r]

Goto(t, label) ==
    /\ pc' = [pc EXCEPT ![t] = label]
    /\ UNCHANGED ret

-----------------------------------------------------------------------------
(* init_default_data *)

default_profile(created_at, updated_at) ==
    [name |-> "ZwQ",
     description |-> "Bio",
     profile_image |-> "https://i.pinimg.com/736x/1b/a1/3f/1ba13f9e183fb869f3999b954b25d949.jpg",
     created_at |-> created_at,
     updated_at |-> updated_at]

\* The default links with the orders of Steam and GitHub exchanged.
default_links_exchanged ==
    << [title |-> "Facebook", url |-> "https://facebook.com", icon_type |-> "facebook", order |-> 1],
       [title |-> "Discord", url |-> "https://discord.com", icon_type |-> "discord", order |-> 2],
       [title |-> "Steam", url |-> "https://steamcommunity.com", icon_type |-> "steam", order |-> 4],
       [title |-> "GitHub", url |-> "https://github.com", icon_type |-> "github", order |-> 3],
       [title |-> "YouTube", url |-> "https://youtube.com", icon_type |-> "youtube", order |-> 5] >>

default_links ==
    << [title |-> "Facebook", url |-> "https://facebook.com", icon_type |-> "facebook", order |-> 1],
       [title |-> "Discord", url |-> "https://discord.com", icon_type |-> "discord", order |-> 2],
       [title |-> "Steam", url |-> "https://steamcommunity.com", icon_type |-> "steam", order |-> 3],
       [title |-> "GitHub", url |-> "https://github.com", icon_type |-> "github", order |-> 4],
       [title |-> "YouTube", url |-> "https://youtube.com", icon_type |-> "youtube", order |-> 5] >>

\* The check of init_default_data: count the profiles, stop unless there is none.
SeedCount(t) ==
    /\ Call(t, "init_default_data", NoArg)
    /\ IF count_documents(bio_profiles) = 0
       THEN Goto(t, "seed_insert_profile")
       ELSE Finish(t, Returned(<<>>))
    /\ UNCHANGED <<bio_profiles, social_links, next_oid, clock, local>>

\* insert_one(default_profile): two clock reads, a fresh _id.
SeedInsertProfile(t) ==
    /\ pc[t] = "seed_insert_profile"
    /\ \E t1 \in clock..MaxClock : \E t2 \in t1..MaxClock :
          /\ bio_profiles' = insert_one(bio_profiles,
                                [_id |-> next_oid] @@ default_profile(t1, t2))
          /\ clock' = t2
    /\ next_oid' = next_oid + 1
    /\ local' = [local EXCEPT ![t] = next_oid]
    /\ Goto(t, "seed_insert_links")
    /\ UNCHANGED <<social_links, budget, op, arg, pre>>

\* The clock reads of the five link literals, in order.
ClockReads(n, from) ==
    {ts \in [1..n -> from..MaxClock] : \A i \in 1..(n - 1) : ts[i] <= ts[i + 1]}

\* insert_many(default_links): five documents with consecutive fresh _ids.
SeedInsertLinks(t) ==
    /\ pc[t] = "seed_insert_links"
    /\ \E ts \in ClockReads(Len(default_links), clock) :
          /\ social_links' = insert_many(social_links,
                [i \in 1..Len(default_links) |->
                    [_id |-> next_oid + i - 1, profile_id |-> local[t], created_at |-> ts[i]]
                    @@ default_links[i]])
          /\ clock' = ts[Len(default_links)]
    /\ next_oid' = next_oid + Len(default_links)
    /\ Finish(t, Returned(<<>>))
    /\ UNCHANGED <<bio_profiles, budget, op, arg, local, pre>>

-----------------------------------------------------------------------------
(* Request bodies and path parameters the handlers are called with. *)

\* BioProfileCreate: three required strings.
ProfileInputs == {[name |-> "N", description |-> "D", profile_image |-> "P"]}

\* SocialLinkCreate: four required fields.
LinkInputs == {[title |-> "T", url |-> "U", icon_type |-> "t", order |-> o] : o \in {0, 9}}

\* An Optional field: None is <<>>, a value v is <<v>>.
Opt(S) == {<<>>} \cup {<<v>> : v \in S}

\* SocialLinkUpdate: four optional fields, None when absent or null.
LinkUpdateInputs ==
    [title : Opt({"T2"}), url : Opt({"U2"}), icon_type : Opt({"t2"}), order : Opt({9})]

NotHex == [i \in 1..OidStrLen |-> IF i = OidStrLen THEN "g" ELSE "0"]

TooShort == <<"a", "b", "c">>

\* link_id path parameters: the string form of some ObjectIds, and two strings
\* that are no ObjectId.
LinkIdInputs == {ObjectIdStr(n) : n \in 0..MaxOidIn} \cup {NotHex, TooShort}

-----------------------------------------------------------------------------
(* get_profile *)

GetProfile(t) ==
    /\ Call(t, "get_profile", NoArg)
    /\ LET profile == find_one(bio_profiles)
       IN  IF profile = <<>>
           THEN Finish(t, HTTPException(404, "Profile not found"))
           ELSE Finish(t, Returned(convert_object_id(profile)))
    /\ UNCHANGED <<bio_profiles, social_links, next_oid, clock, local>>

-----------------------------------------------------------------------------
(* update_profile *)

UpdateProfileFind(t) ==
    /\ \E profile_data \in ProfileInputs :
          Call(t, "update_profile", [link_id |-> <<>>, data |-> <<profile_data>>])
    /\ LET profile == find_one(bio_profiles)
       IN  IF profile = <<>>
           THEN /\ Finish(t, HTTPException(404, "Profile not found"))
                /\ UNCHANGED local
           ELSE /\ Goto(t, "update_profile_update")
                /\ local' = [local EXCEPT ![t] = profile[1]._id]
    /\ UNCHANGED <<bio_profiles, social_links, next_oid, clock>>

\* update_data = profile_data.dict() plus updated_at; $set on the profile found.
UpdateProfileUpdate(t) ==
    /\ pc[t] = "update_profile_update"
    /\ \E now \in clock..MaxClock :
          /\ bio_profiles' = update_one(bio_profiles, local[t],
                                 arg[t].data[1] @@ [updated_at |-> now])
          /\ clock' = now
    /\ Goto(t, "update_profile_find")
    /\ UNCHANGED <<social_links, next_oid, budget, op, arg, local, pre>>

UpdateProfileFindUpdated(t) ==
    /\ pc[t] = "update_profile_find"
    /\ Finish(t, Returned(convert_object_id(find_one_by_id(bio_profiles, local[t]))))
    /\ UNCHANGED <<bio_profiles, social_links, next_oid, clock, budget, op, arg, local, pre>>

-----------------------------------------------------------------------------
(* get_links *)

SetMin(S) == CHOOSE m \in S : \A x \in S : m <= x

RECURSIVE SortKeys(_, _)
SortKeys(coll, keys) ==
    IF keys = {} THEN <<>>
    ELSE LET m == SetMin(keys)
         IN  SelectSeq(coll, LAMBDA d : d.order = m) \o SortKeys(coll, keys \ {m})

\* A sort that leaves the natural order.
sort_by_order_natural(coll) == coll

\* find().sort("order", 1): ascending by order, documents of equal order in
\* natural order.
sort_by_order(coll) == SortKeys(coll, {coll[i].order : i \in 1..Len(coll)})

\* A to_list that ignores its length.
to_list_all(cursor, length) == cursor

\* to_list(length): at most length documents, from the front.
to_list(cursor, length) ==
    SubSeq(cursor, 1, IF Len(cursor) < length THEN Len(cursor) ELSE length)

get_links_result(coll) ==
    LET links == to_list(sort_by_order(coll), ListLimit)
    IN  [i \in 1..Len(links) |-> convert_object_id(<<links[i]>>)[1]]

GetLinks(t) ==
    /\ Call(t, "get_links", NoArg)
    /\ Finish(t, Returned(get_links_result(social_links)))
    /\ UNCHANGED <<bio_profiles, social_links, next_oid, clock, local>>

-----------------------------------------------------------------------------
(* create_link *)

CreateLinkFind(t) ==
    /\ \E link_data \in LinkInputs :
          Call(t, "create_link", [link_id |-> <<>>, data |-> <<link_data>>])
    /\ LET profile == find_one(bio_profiles)
       IN  IF profile = <<>>
           THEN /\ Finish(t, HTTPException(404, "Profile not found"))
                /\ UNCHANGED local
           ELSE /\ Goto(t, "create_link_insert")
                /\ local' = [local EXCEPT ![t] = profile[1]._id]
    /\ UNCHANGED <<bio_profiles, social_links, next_oid, clock>>

\* new_link = link_data.dict() plus profile_id and created_at; insert_one.
CreateLinkInsert(t) ==
    /\ pc[t] = "create_link_insert"
    /\ \E now \in clock..MaxClock :
          /\ social_links' = insert_one(social_links,
                                 [_id |-> next_oid, profile_id |-> local[t], created_at |-> now]
                                 @@ arg[t].data[1])
          /\ clock' = now
    /\ next_oid' = next_oid + 1
    /\ local' = [local EXCEPT ![t] = next_oid]
    /\ Goto(t, "create_link_find")
    /\ UNCHANGED <<bio_profiles, budget, op, arg, pre>>

CreateLinkFindCreated(t) ==
    /\ pc[t] = "create_link_find"
    /\ Finish(t, Returned(convert_object_id(find_one_by_id(social_links, local[t]))))
    /\ UNCHANGED <<bio_profiles, social_links, next_oid, clock, budget, op, arg, local, pre>>

-----------------------------------------------------------------------------
(* update_link *)

\* An update_data that drops the order.
update_data_no_order(link_data) ==
    [k \in {f \in DOMAIN link_data \ {"order"} : link_data[f] # <<>>} |-> link_data[k][1]]

\* {k: v for k, v in link_data.dict().items() if v is not None}
update_data(link_data) ==
    [k \in {f \in DOMAIN link_data : link_data[f] # <<>>} |-> link_data[k][1]]

UpdateLinkFind(t) ==
    /\ \E link_id \in LinkIdInputs, link_data \in LinkUpdateInputs :
          Call(t, "update_link", [link_id |-> link_id, data |-> <<link_data>>])
    /\ LET link_id == arg'[t].link_id
           link_data == arg'[t].data[1]
       IN  IF ~ObjectIdValid(link_id)
           THEN /\ Finish(t, HTTPException(400, "Invalid link ID"))
                /\ UNCHANGED local
           ELSE /\ local' = [local EXCEPT ![t] = ObjectId(link_id)]
                /\ IF find_one_by_id(social_links, ObjectId(link_id)) = <<>>
                   THEN Finish(t, HTTPException(404, "Link not found"))
                   ELSE IF DOMAIN update_data(link_data) # {}
                        THEN Goto(t, "update_link_update")
                        ELSE Goto(t, "update_link_find")
    /\ UNCHANGED <<bio_profiles, social_links, next_oid, clock>>

UpdateLinkUpdate(t) ==
    /\ pc[t] = "update_link_update"
    /\ social_links' = update_one(social_links, local[t], update_data(arg[t].data[1]))
    /\ Goto(t, "update_link_find")
    /\ UNCHANGED <<bio_profiles, next_oid, clock, budget, op, arg, local, pre>>

UpdateLinkFindUpdated(t) ==
    /\ pc[t] = "update_link_find"
    /\ Finish(t, Returned(convert_object_id(find_one_by_id(social_links, local[t]))))
    /\ UNCHANGED <<bio_profiles, social_links, next_oid, clock, budget, op, arg, local, pre>>

-----------------------------------------------------------------------------
(* delete_link *)

DeleteLink(t) ==
    /\ \E link_id \in LinkIdInputs :
          Call(t, "delete_link", [link_id |-> link_id, data |-> <<>>])
    /\ LET link_id == arg'[t].link_id
       IN  IF ~ObjectIdValid(link_id)
           THEN /\ Finish(t, HTTPException(400, "Invalid link ID"))
                /\ UNCHANGED <<social_links, local>>
           ELSE /\ local' = [local EXCEPT ![t] = ObjectId(link_id)]
                /\ social_links' = delete_one(social_links, ObjectId(link_id))
                /\ IF deleted_count(social_links, ObjectId(link_id)) = 0
                   THEN Finish(t, HTTPException(404, "Link not found"))
                   ELSE Finish(t, Returned(<<[message |-> "Link deleted successfully"]>>))
    /\ UNCHANGED <<bio_profiles, next_oid, clock>>

-----------------------------------------------------------------------------
(* Specifications. *)

EmptyInit(calls) ==
    /\ bio_profiles = <<>>
    /\ social_links = <<>>
    /\ next_oid = 1
    /\ clock = 0
    /\ budget = calls
    /\ pc = [t \in Tasks |-> "idle"]
    /\ op = [t \in Tasks |-> "none"]
    /\ arg = [t \in Tasks |-> NoArg]
    /\ local = [t \in Tasks |-> 0]
    /\ ret = [t \in Tasks |-> Returned(<<>>)]
    /\ pre = [t \in Tasks |-> [profiles |-> <<>>, links |-> <<>>]]

\* A store an earlier process left behind: the seeder has run and n - 5 links
\* were created after it, with orders 0 and 9 in turn.  The store outlives the
\* process, so a process may start on it.
populated_links(n) ==
    [i \in 1..n |->
        [_id |-> i + 1, profile_id |-> 1, created_at |-> 0]
        @@ (IF i <= Len(default_links)
            THEN default_links[i]
            ELSE [title |-> "T", url |-> "U", icon_type |-> "t",
                  order |-> IF i % 2 = 0 THEN 0 ELSE 9])]

PopulatedInit(n, calls) ==
    /\ bio_profiles = <<[_id |-> 1] @@ default_profile(0, 0)>>
    /\ social_links = populated_links(n)
    /\ next_oid = n + 2
    /\ clock = 0
    /\ budget = calls
    /\ pc = [t \in Tasks |-> "idle"]
    /\ op = [t \in Tasks |-> "none"]
    /\ arg = [t \in Tasks |-> NoArg]
    /\ local = [t \in Tasks |-> 0]
    /\ ret = [t \in Tasks |-> Returned(<<>>)]
    /\ pre = [t \in Tasks |-> [profiles |-> <<>>, links |-> <<>>]]

\* The process starts on an empty store or on a seeded one.
Init == EmptyInit(MaxCalls) \/ PopulatedInit(Len(default_links), MaxCalls)

\* The steps of the seeder.
Seed(t) ==
    \/ SeedCount(t)
    \/ SeedInsertProfile(t)
    \/ SeedInsertLinks(t)

\* The steps of the request handlers.
Serve(t) ==
    \/ GetProfile(t)
    \/ UpdateProfileFind(t)
    \/ UpdateProfileUpdate(t)
    \/ UpdateProfileFindUpdated(t)
    \/ GetLinks(t)
    \/ CreateLinkFind(t)
    \/ CreateLinkInsert(t)
    \/ CreateLinkFindCreated(t)
    \/ UpdateLinkFind(t)
    \/ UpdateLinkUpdate(t)
    \/ UpdateLinkFindUpdated(t)
    \/ DeleteLink(t)

\* Concurrent tasks: any task takes its next step.
Next == \E t \in Tasks : Seed(t) \/ Serve(t)

Spec == Init /\ [][Next]_vars

\* One task: every handler runs to completion before the next starts.
SeqInit == EmptyInit(MaxCalls)

SeqNext == Seed(1) \/ Serve(1)

SeqSpec == SeqInit /\ [][SeqNext]_vars

\* One task on a store holding about ListLimit links: listing, creating and
\* deleting links.
CapInit ==
    \E n \in {Len(default_links), ListLimit - 1, ListLimit, ListLimit + 1} :
        PopulatedInit(n, MaxCalls)

CapNext ==
    \/ GetLinks(1)
    \/ CreateLinkFind(1)
    \/ CreateLinkInsert(1)
    \/ CreateLinkFindCreated(1)
    \/ DeleteLink(1)

CapSpec == CapInit /\ [][CapNext]_vars

-----------------------------------------------------------------------------
(* Properties.  In SeqSpec and CapSpec task 1 is the only task, so when it  *)
(* is idle the collections are as its last handler left them and pre[1] is *)
(* what that handler started from.                                         *)

Done(t, name) == pc[t] = "idle" /\ op[t] = name

Ids(coll) == {coll[i]._id : i \in 1..Len(coll)}

At(coll, oid) == coll[CHOOSE i \in 1..Len(coll) : coll[i]._id = oid]

LinkFields == {"title", "url", "icon_type", "order"}

\* C1: from a store with no profile and no link, one complete run of the
\* seeder leaves exactly one profile and exactly five links, titled Facebook,
\* Discord, Steam, GitHub, YouTube in insertion order with orders 1..5, each
\* carrying the new profile's identity as profile_id.
SeedFromEmpty ==
    (Done(1, "init_default_data") /\ pre[1].profiles = <<>> /\ pre[1].links = <<>>) =>
        /\ Len(bio_profiles) = 1
        /\ Len(social_links) = 5
        /\ [i \in 1..5 |-> social_links[i].title]
             = <<"Facebook", "Discord", "Steam", "GitHub", "YouTube">>
        /\ \A i \in 1..5 :
              /\ social_links[i].order = i
              /\ social_links[i].profile_id = bio_profiles[1]._id

SeedFromEmptyWitness ==
    /\ Done(1, "init_default_data")
    /\ pre[1].profiles = <<>>
    /\ pre[1].links = <<>>
    /\ Len(social_links) = 5

\* C2: when a profile exists, a complete run of the seeder leaves both
\* collections exactly as they were.
SeedIsNoOpWithProfile ==
    (Done(1, "init_default_data") /\ pre[1].profiles # <<>>) =>
        /\ bio_profiles = pre[1].profiles
        /\ social_links = pre[1].links

\* The seeder has run a second time: one profile and five links remain.
SeedTwiceWitness ==
    /\ Done(1, "init_default_data")
    /\ pre[1].profiles # <<>>
    /\ budget = 0
    /\ Len(bio_profiles) = 1
    /\ Len(social_links) = 5

\* C3: under any interleaving of seeder runs and requests, the profile
\* collection holds at most one document.
AtMostOneProfile == Len(bio_profiles) <= 1

\* C4: update_link on an existing link sets each of title, url, icon_type and
\* order to the supplied value when one is supplied and keeps it otherwise;
\* the link's _id, profile_id and created_at, every other link and the
\* profile stay; the returned document is the link after the call; a body
\* with no value issues no write.
UpdateLinkMerges ==
    /\ pc[1] = "update_link_update" => \E f \in LinkFields : arg[1].data[1][f] # <<>>
    /\ (/\ Done(1, "update_link")
        /\ ObjectIdValid(arg[1].link_id)
        /\ ObjectId(arg[1].link_id) \in Ids(pre[1].links)) =>
          LET oid == ObjectId(arg[1].link_id)
              body == arg[1].data[1]
              old == At(pre[1].links, oid)
          IN  /\ ret[1].status = 200
              /\ bio_profiles = pre[1].profiles
              /\ Len(social_links) = Len(pre[1].links)
              /\ \A i \in 1..Len(social_links) :
                    pre[1].links[i]._id # oid => social_links[i] = pre[1].links[i]
              /\ \A i \in 1..Len(social_links) :
                    pre[1].links[i]._id = oid =>
                       /\ DOMAIN social_links[i] = DOMAIN old
                       /\ social_links[i]._id = oid
                       /\ social_links[i].profile_id = old.profile_id
                       /\ social_links[i].created_at = old.created_at
                       /\ \A f \in LinkFields :
                             social_links[i][f] = IF body[f] # <<>> THEN body[f][1] ELSE old[f]
                       /\ Len(ret[1].body) = 1
                       /\ ret[1].body[1].id = ObjectIdStr(oid)
                       /\ \A f \in LinkFields : ret[1].body[1][f] = social_links[i][f]

\* update_link with the body {order: 9} has changed the order of a link and
\* nothing else of it.
UpdateOrderOnlyWitness ==
    /\ Done(1, "update_link")
    /\ ret[1].status = 200
    /\ arg[1].data[1] = [title |-> <<>>, url |-> <<>>, icon_type |-> <<>>, order |-> <<9>>]
    /\ At(pre[1].links, ObjectId(arg[1].link_id)).order = 1
    /\ At(social_links, ObjectId(arg[1].link_id)).order = 9
    /\ At(social_links, ObjectId(arg[1].link_id)).title = "Facebook"

\* The outcome of a finished delete_link, by what it was called on.
DeleteOutcome ==
    Done(1, "delete_link") =>
        /\ bio_profiles = pre[1].profiles
        /\ IF ~ObjectIdValid(arg[1].link_id)
           THEN ret[1].status = 400 /\ social_links = pre[1].links
           ELSE IF ObjectId(arg[1].link_id) \notin Ids(pre[1].links)
           THEN ret[1].status = 404 /\ social_links = pre[1].links
           ELSE /\ ret[1].status = 200
                /\ Len(social_links) = Len(pre[1].links) - 1
                /\ social_links
                     = SelectSeq(pre[1].links, LAMBDA d : d._id # ObjectId(arg[1].link_id))

\* A delete_link that follows a successful delete_link of the same identity.
DeleteAgain ==
    (/\ Done(1, "delete_link")
     /\ ret[1].status = 200
     /\ budget' = budget - 1
     /\ op'[1] = "delete_link"
     /\ arg'[1].link_id = arg[1].link_id) => ret'[1].status = 404

\* C5: delete_link on a malformed identity is a 400 and changes nothing; on a
\* well-formed identity matching no link it is a 404 and changes nothing; on
\* one matching a link it succeeds and removes exactly that link, every
\* other link and the profile staying; deleting the same identity a second
\* time is a 404.
DeleteLinkOutcomes == []DeleteOutcome /\ [][DeleteAgain]_vars

\* delete_link has met an identity that was given to a link and matches none
\* any more: it has been deleted before.
DeleteTwiceWitness ==
    /\ Done(1, "delete_link")
    /\ ret[1].status = 404
    /\ ObjectIdValid(arg[1].link_id)
    /\ ObjectId(arg[1].link_id) \in 2..(next_oid - 1)
    /\ ObjectId(arg[1].link_id) \notin Ids(social_links)

\* C6: create_link with no profile is a 404 and changes nothing; with a
\* profile it appends exactly one link, carrying the identity of the profile
\* the unfiltered lookup returns and the supplied fields, and leaves the
\* earlier links and the profile as they were.
CreateLinkNeedsProfile ==
    Done(1, "create_link") =>
        IF pre[1].profiles = <<>>
        THEN /\ ret[1].status = 404
             /\ bio_profiles = pre[1].profiles
             /\ social_links = pre[1].links
        ELSE /\ ret[1].status = 200
             /\ bio_profiles = pre[1].profiles
             /\ Len(social_links) = Len(pre[1].links) + 1
             /\ SubSeq(social_links, 1, Len(pre[1].links)) = pre[1].links
             /\ social_links[Len(social_links)].profile_id = pre[1].profiles[1]._id
             /\ \A f \in LinkFields :
                   social_links[Len(social_links)][f] = arg[1].data[1][f]

CreateLinkNoProfileWitness ==
    /\ Done(1, "create_link")
    /\ pre[1].profiles = <<>>
    /\ ret[1].status = 404

\* C7: get_links returns min(n, 100) links and changes nothing; the link
\* with k links before it by (order, insertion position) is the result's
\* entry k + 1 when k < 100, and is left out otherwise.
ListIsSortedAndCapped ==
    Done(1, "get_links") =>
        LET r == ret[1].body
            n == Len(social_links)
            Before(q, p) ==
                \/ social_links[q].order < social_links[p].order
                \/ social_links[q].order = social_links[p].order /\ q < p
            Rank(p) == Cardinality({q \in 1..n : Before(q, p)}) + 1
        IN  /\ ret[1].status = 200
            /\ bio_profiles = pre[1].profiles
            /\ social_links = pre[1].links
            /\ Len(r) = IF n < 100 THEN n ELSE 100
            /\ \A p \in 1..n :
                  Rank(p) <= 100 =>
                     /\ r[Rank(p)].id = ObjectIdStr(social_links[p]._id)
                     /\ \A f \in LinkFields : r[Rank(p)][f] = social_links[p][f]

\* get_links has listed a collection of more than 100 links, with two links
\* of equal order next to each other in the result.
ListCappedWitness ==
    /\ Done(1, "get_links")
    /\ Len(social_links) > 100
    /\ Len(ret[1].body) = 100
    /\ \E i \in 1..99 : ret[1].body[i].order = ret[1].body[i + 1].order

\* Whether the listing holds the document create_link returned, with the
\* fields create_link was given.
ListedAfterCreate ==
    LET listing == get_links_result(social_links)
    IN  \E i \in 1..Len(listing) :
           /\ listing[i].id = ret[1].body[1].id
           /\ \A f \in LinkFields : listing[i][f] = arg[1].data[1][f]

\* The document create_link returned carries a fresh identity.
CreatedIsFresh ==
    /\ Len(ret[1].body) = 1
    /\ \A f \in LinkFields : ret[1].body[1][f] = arg[1].data[1][f]
    /\ \A i \in 1..Len(pre[1].links) :
          ObjectIdStr(pre[1].links[i]._id) # ret[1].body[1].id

\* C8 as stated: after every successful create_link, get_links holds the new
\* link with identical fields and a fresh identity.
CreateThenListAlways ==
    (Done(1, "create_link") /\ ret[1].status = 200) =>
        CreatedIsFresh /\ ListedAfterCreate

\* C8, amended: the new link is fresh, and get_links holds it exactly when
\* fewer than 100 earlier links have an order at most the new link's.
CreateThenListWithinCap ==
    (Done(1, "create_link") /\ ret[1].status = 200) =>
        /\ CreatedIsFresh
        /\ ListedAfterCreate <=>
             Cardinality({i \in 1..Len(pre[1].links) :
                             pre[1].links[i].order <= arg[1].data[1].order}) < 100

\* create_link has added a link that the cap of get_links leaves out.
CreateBeyondCapWitness ==
    /\ Done(1, "create_link")
    /\ ret[1].status = 200
    /\ Len(pre[1].links) >= 100
    /\ ~ListedAfterCreate

\* What a finished get_profile or update_profile left.
ProfileOutcome ==
    /\ (Done(1, "get_profile") /\ pre[1].profiles # <<>>) => ret[1].status = 200
    /\ Done(1, "update_profile") =>
          IF pre[1].profiles = <<>>
          THEN /\ ret[1].status = 404
               /\ bio_profiles = pre[1].profiles
               /\ social_links = pre[1].links
          ELSE LET old == pre[1].profiles[1]
                   new == bio_profiles[1]
                   data == arg[1].data[1]
               IN  /\ ret[1].status = 200
                   /\ social_links = pre[1].links
                   /\ Len(bio_profiles) = Len(pre[1].profiles)
                   /\ DOMAIN new = DOMAIN old
                   /\ new._id = old._id
                   /\ new.created_at = old.created_at
                   /\ new.name = data.name
                   /\ new.description = data.description
                   /\ new.profile_image = data.profile_image
                   /\ new.updated_at = clock
                   /\ new.updated_at >= old.updated_at
                   /\ ret[1].body = <<[id |-> ObjectIdStr(old._id),
                                       name |-> data.name,
                                       description |-> data.description,
                                       profile_image |-> data.profile_image,
                                       created_at |-> old.created_at,
                                       updated_at |-> new.updated_at]>>

\* No step removes a profile.
ProfileStays == bio_profiles # <<>> => bio_profiles' # <<>>

\* C9: update_profile overwrites name, description and profile_image,
\* refreshes updated_at, keeps _id and created_at, adds no profile, leaves
\* the links and returns the updated document; without a profile it is a 404
\* and writes nothing; no step removes a profile, and with a profile neither
\* get_profile nor update_profile is a 404.
ReplaceProfile == []ProfileOutcome /\ [][ProfileStays]_vars

\* update_profile has replaced the seeded profile at a later clock reading.
ReplaceProfileWitness ==
    /\ Done(1, "update_profile")
    /\ ret[1].status = 200
    /\ pre[1].profiles[1].name = "ZwQ"
    /\ bio_profiles[1].name = "N"
    /\ bio_profiles[1].updated_at > bio_profiles[1].created_at

\* C10: an update_link called with a well-formed identity ends in a 404 or in
\* a returned document carrying that identity, whatever is interleaved.
UpdateLinkNeverReturnsNone ==
    \A t \in Tasks :
        (Done(t, "update_link") /\ ObjectIdValid(arg[t].link_id)) =>
            \/ ret[t].status = 404
            \/ /\ ret[t].status = 200
               /\ Len(ret[t].body) = 1
               /\ ret[t].body[1].id = ObjectIdStr(ObjectId(arg[t].link_id))

====
